---- MODULE Spec2Model ----
(***************************************************************************)
(* Model of src/index.js (area-connections-map): the connection extractor  *)
(* findDirectionalConnections, the Vector primitives, getDirectionVector   *)
(* and the ForceDirectedGraph layout engine (constructor, applyForces,     *)
(* simulate).                                                              *)
(*                                                                         *)
(* Numbers.  JavaScript numbers are modelled in fixed point: a finite      *)
(* number v is the integer v * Scale, products and quotients are rounded   *)
(* toward zero (sign-symmetric, as IEEE rounding is).  The three           *)
(* non-finite values NaN, Infinity and -Infinity are kept as separate      *)
(* values with the IEEE rules of +, -, *, /, Math.min and Math.max.        *)
(***************************************************************************)
EXTENDS Integers, Sequences, FiniteSets, TLC

\* ------------------------------------------------------------------------
\* Bounds of the extractor's input graphs
\* ------------------------------------------------------------------------
NRooms == 3
MaxExits == 2

\* Object.keys(areasDict): the area names in key order.
AreaNames == <<"Town", "Forest", "Cave">>
\* The exit keys of a room, in Object.entries order.
Dirs == <<"east", "west">>

\* A falsy targetId: the exit key is present without a target (null).
Null == 0
RoomIds == 1 .. NRooms
\* A room identifier that is a key of no area's rooms.
Dangling == NRooms + 1
Targets == RoomIds \cup {Dangling}
Slots == RoomIds \X (1 .. Len(Dirs))

VARIABLES
    areasDict,     \* the extractor's input: [owner, exits]
    found,         \* the list returned by findDirectionalConnections
    xpc,           \* "ready" before the call, "done" after
                   \* findDirectionalConnections, "rendered" after
                   \* generateHTML, "off"
    drawn,         \* the number of paths generateHTML has drawn for every
                   \* connection
    args,          \* the constructor's arguments areasDict, connections
                   \* and the values Math.random() returned
    width,         \* this.width
    height,        \* this.height
    areas,         \* this.areas
    connections,   \* this.connections
    pc,            \* "idle", or "loop" inside simulate
    iterations,    \* the parameter of the running simulate call
    iter,          \* the loop variable i of simulate
    calls,         \* applyForces calls made by the running simulate call
    steps,         \* applyForces calls made on this engine
    returned,      \* what the running or last simulate call has returned
    repelled,      \* the pairs a non-zero repulsion was applied to so far
    simArgs,       \* the argument list of the running or last simulate call
    probe          \* the positions before the last applyForces call and
                   \* the forces it added for every pair and every edge

xvars == <<areasDict, found, xpc, drawn>>
evars == <<args, width, height, areas, connections, pc, iterations, iter,
           calls, steps, returned, repelled, simArgs, probe>>
vars == <<xvars, evars>>

\* ------------------------------------------------------------------------
\* findDirectionalConnections
\* ------------------------------------------------------------------------
\* Object.keys(areasDict[area].rooms): integer-like keys, ascending.
RoomsOf(g, a) == {r \in RoomIds : g.owner[r] = a}

Min(S) == CHOOSE m \in S : \A n \in S : m <= n

\* areaNames.find(name => keys of its rooms include targetId): the index of
\* the first such area, 0 when find returns undefined.
FindAreaOrFirst(g, targetId) ==
    LET hits == {a \in 1 .. Len(AreaNames) : targetId \in RoomsOf(g, a)}
    IN  IF hits = {} THEN 1 ELSE Min(hits)

FindArea(g, targetId) ==
    LET hits == {a \in 1 .. Len(AreaNames) : targetId \in RoomsOf(g, a)}
    IN  IF hits = {} THEN 0 ELSE Min(hits)

\* The exits of one room, pushed in Object.entries order from key d on.
RECURSIVE ExitCandidates(_, _, _, _)
ExitCandidates(g, a, r, d) ==
    IF d > Len(Dirs) THEN <<>>
    ELSE LET targetId == g.exits[<<r, d>>]
             t        == FindArea(g, targetId)
             push     == IF targetId # Null /\ t # 0 /\ t # a
                         THEN <<[source |-> AreaNames[a],
                                 target |-> AreaNames[t],
                                 direction |-> Dirs[d]]>>
                         ELSE <<>>
         IN  push \o ExitCandidates(g, a, r, d + 1)

\* The rooms of one area, in key order.
RECURSIVE RoomCandidates(_, _, _)
RoomCandidates(g, a, rooms) ==
    IF rooms = {} THEN <<>>
    ELSE LET r == Min(rooms)
         IN  ExitCandidates(g, a, r, 1) \o RoomCandidates(g, a, rooms \ {r})

\* areaNames.forEach: the candidate list `connections` before the filter.
RECURSIVE AreaCandidates(_, _)
AreaCandidates(g, a) ==
    IF a > Len(AreaNames) THEN <<>>
    ELSE RoomCandidates(g, a, RoomsOf(g, a)) \o AreaCandidates(g, a + 1)

Candidates(g) == AreaCandidates(g, 1)

\* connections.findIndex(c => c.source === conn.target &&
\*                            c.target === conn.source), 0-based, -1 if none.
ReverseIndex(list, conn) ==
    LET hits == {k \in 1 .. Len(list) :
                    /\ list[k].source = conn.target
                    /\ list[k].target = conn.source}
    IN  IF hits = {} THEN -1 ELSE Min(hits) - 1

\* A filter that only drops an entry that is its own reverse.
KeepNotItself(list, index) ==
    LET reverse == ReverseIndex(list, list[index + 1])
    IN  reverse = -1 \/ index # reverse

\* The filter's predicate for the entry at 0-based position index.
KeepLater(list, index) ==
    LET reverse == ReverseIndex(list, list[index + 1])
    IN  reverse = -1 \/ index > reverse

KeepUnpaired(list, index) ==
    ReverseIndex(list, list[index + 1]) = -1

Keep(list, index) ==
    LET reverse == ReverseIndex(list, list[index + 1])
    IN  reverse = -1 \/ index < reverse

\* connections.filter((conn, index) => ...)
RECURSIVE FilterFrom(_, _)
FilterFrom(list, index) ==
    IF index >= Len(list) THEN <<>>
    ELSE (IF Keep(list, index) THEN <<list[index + 1]>> ELSE <<>>)
         \o FilterFrom(list, index + 1)

Dedup(list) == FilterFrom(list, 0)

\* The input graphs: every room belongs to one area (identifiers are unique
\* across the dataset), at most MaxExits exit keys carry a target.
Owners ==
    {o \in [RoomIds -> 1 .. Len(AreaNames)] :
        \A r, s \in RoomIds : r <= s => o[r] <= o[s]}

ExitMaps ==
    UNION {UNION {{[s \in Slots |-> IF s \in S THEN f[s] ELSE Null] :
                      f \in [S -> Targets]} :
                  S \in {T \in SUBSET Slots : Cardinality(T) = n}} :
           n \in 0 .. MaxExits}

XInit ==
    /\ areasDict \in [owner : Owners, exits : ExitMaps]
    /\ found = <<>>
    /\ drawn = <<>>
    /\ xpc = "ready"
    /\ args = [rooms |-> <<>>, connections |-> <<>>, random |-> <<>>]
    /\ width = 0
    /\ height = 0
    /\ areas = <<>>
    /\ connections = <<>>
    /\ pc = "off"
    /\ iterations = 0
    /\ iter = 0
    /\ calls = 0
    /\ steps = 0
    /\ returned = "nothing"
    /\ repelled = {}
    /\ simArgs = <<>>
    /\ probe = [pos |-> <<>>, edges |-> <<>>, repulsion |-> <<>>]

FindDirectionalConnections ==
    /\ xpc = "ready"
    /\ found' = Dedup(Candidates(areasDict))
    /\ xpc' = "done"
    /\ UNCHANGED <<areasDict, drawn, evars>>

\* connections.some(c => c.source === conn.target &&
\*                       c.target === conn.source)
isBidirectional(list, conn) ==
    \E k \in 1 .. Len(list) :
        list[k].source = conn.target /\ list[k].target = conn.source

\* The paths drawn for one connection: path1, and path2 when isBidirectional.
\* Both endpoints are areas of the input, which the layout returns with
\* finite positions on the 5000 x 5000 canvas, so no connection is skipped.
PathsOf(list, conn) == IF isBidirectional(list, conn) THEN 2 ELSE 1

\* generateHTML(areasData): extracts the connections and renders each.
GenerateHTML ==
    /\ xpc = "ready"
    /\ LET conns == Dedup(Candidates(areasDict))
       IN  /\ found' = conns
           /\ drawn' = [k \in DOMAIN conns |-> PathsOf(conns, conns[k])]
    /\ xpc' = "rendered"
    /\ UNCHANGED <<areasDict, evars>>

XNext == FindDirectionalConnections \/ GenerateHTML

SpecExtract == XInit /\ [][XNext]_vars

\* ------------------------------------------------------------------------
\* JavaScript numbers
\* ------------------------------------------------------------------------
\* Resolution of the fixed-point numbers: the number v is the integer v*Scale.
Scale == 100

\* The non-finite values that Number.isFinite rejects.
PosInf == 1000000000
NegInf == -PosInf
NaN == 1000000001

IsFinite(a) == a # NaN /\ a # PosInf /\ a # NegInf

\* The literal n/d, and the integer n.
Num(n, d) == (n * Scale) \div d
Whole(n) == n * Scale

\* Quotient rounded toward zero, b > 0.
TruncDiv(a, b) == IF a >= 0 THEN a \div b ELSE -((-a) \div b)

Sign(a) == IF a < 0 THEN -1 ELSE 1

jsNeg(a) == IF a = NaN THEN NaN ELSE -a

jsAdd(a, b) ==
    IF a = NaN \/ b = NaN THEN NaN
    ELSE IF a = PosInf THEN (IF b = NegInf THEN NaN ELSE PosInf)
    ELSE IF a = NegInf THEN (IF b = PosInf THEN NaN ELSE NegInf)
    ELSE IF ~IsFinite(b) THEN b
    ELSE a + b

jsSub(a, b) == jsAdd(a, jsNeg(b))

jsMul(a, b) ==
    IF a = NaN \/ b = NaN THEN NaN
    ELSE IF ~IsFinite(a) \/ ~IsFinite(b)
         THEN (IF a = 0 \/ b = 0 THEN NaN ELSE Sign(a) * Sign(b) * PosInf)
    ELSE TruncDiv(a * b, Scale)

jsDiv(a, b) ==
    IF a = NaN \/ b = NaN THEN NaN
    ELSE IF ~IsFinite(a)
         THEN (IF ~IsFinite(b) THEN NaN ELSE Sign(a) * Sign(b) * PosInf)
    ELSE IF ~IsFinite(b) THEN 0
    ELSE IF b = 0 THEN (IF a = 0 THEN NaN ELSE Sign(a) * PosInf)
    ELSE Sign(b) * TruncDiv(a * Scale, Sign(b) * b)

\* Math.min and Math.max: NaN when an argument is NaN.
jsMin(a, b) == IF a = NaN \/ b = NaN THEN NaN ELSE IF a < b THEN a ELSE b
jsMax(a, b) == IF a = NaN \/ b = NaN THEN NaN ELSE IF a > b THEN a ELSE b

\* The integer square root, by bisection: lo*lo <= n < hi*hi.
RECURSIVE Bisect(_, _, _)
Bisect(n, lo, hi) ==
    IF hi - lo <= 1 THEN lo
    ELSE LET mid == (lo + hi) \div 2
         IN  IF mid * mid <= n THEN Bisect(n, mid, hi) ELSE Bisect(n, lo, mid)

ISqrt(n) == Bisect(n, 0, 46341)

\* ------------------------------------------------------------------------
\* class Vector
\* ------------------------------------------------------------------------
Vector(x, y) ==
    [x |-> IF IsFinite(x) THEN x ELSE 0, y |-> IF IsFinite(y) THEN y ELSE 0]

Zero == Vector(0, 0)

Add(u, v) == Vector(jsAdd(u.x, v.x), jsAdd(u.y, v.y))

Subtract(u, v) == Vector(jsSub(u.x, v.x), jsSub(u.y, v.y))

Multiply(u, scalar) ==
    LET s == IF IsFinite(scalar) THEN scalar ELSE 0
    IN  Vector(jsMul(u.x, s), jsMul(u.y, s))

\* Math.sqrt(x*x + y*y), rounded once.
Magnitude(u) ==
    IF u.x = NaN \/ u.y = NaN THEN NaN
    ELSE IF ~IsFinite(u.x) \/ ~IsFinite(u.y) THEN PosInf
    ELSE ISqrt(u.x * u.x + u.y * u.y)

Normalize(u) ==
    LET mag == Magnitude(u)
    IN  IF mag = 0 THEN Vector(0, 0)
        ELSE Vector(jsDiv(u.x, mag), jsDiv(u.y, mag))

Validate(u) ==
    IF ~IsFinite(u.x) \/ ~IsFinite(u.y) THEN Vector(0, 0) ELSE u

\* ------------------------------------------------------------------------
\* getDirectionVector
\* ------------------------------------------------------------------------
Compass == {"east", "west", "north", "south", "up", "down"}

\* String.toLowerCase on the direction strings of the model's edges.
ToLowerCase(direction) ==
    CASE direction = "EAST" -> "east"
      [] direction = "West" -> "west"
      [] direction = "Down" -> "down"
      [] OTHER -> direction

\* A resolver whose default case falls back to east.
getDirectionVectorEast(direction) ==
    LET d == ToLowerCase(direction)
    IN  CASE d = "west"  -> Vector(Whole(-1), 0)
          [] d = "north" -> Vector(0, Whole(-1))
          [] d = "south" -> Vector(0, Whole(1))
          [] d = "up"    -> Normalize(Vector(Whole(1), Whole(-1)))
          [] d = "down"  -> Normalize(Vector(Whole(-1), Whole(1)))
          [] OTHER       -> Vector(Whole(1), 0)

getDirectionVector(direction) ==
    LET d == ToLowerCase(direction)
    IN  CASE d = "east"  -> Vector(Whole(1), 0)
          [] d = "west"  -> Vector(Whole(-1), 0)
          [] d = "north" -> Vector(0, Whole(-1))
          [] d = "south" -> Vector(0, Whole(1))
          [] d = "up"    -> Normalize(Vector(Whole(1), Whole(-1)))
          [] d = "down"  -> Normalize(Vector(Whole(-1), Whole(1)))
          [] OTHER       -> Vector(0, 0)

\* ------------------------------------------------------------------------
\* class ForceDirectedGraph
\* ------------------------------------------------------------------------
\* The constants of applyForces.
repulsionForce == Whole(5000)
springForce == Num(1, 100)
springLength == Whole(200)
damping == Num(95, 100)
directionBias == Whole(2)

\* simulate(iterations = 100)
DefaultIterations == 100

\* size: 30 + 30 * Math.max(0, Math.min(1, 1 - (100 / roomCount)))
Size(roomCount) ==
    jsAdd(Whole(30),
          jsMul(Whole(30),
                jsMax(0, jsMin(Whole(1),
                               jsSub(Whole(1),
                                     jsDiv(Whole(100), Whole(roomCount)))))))

\* width/2 + (Math.random() - 0.5) * width/4
Jitter(dimension, random) ==
    jsAdd(jsDiv(dimension, Whole(2)),
          jsDiv(jsMul(jsSub(random, Num(1, 2)), dimension), Whole(4)))

\* One node of this.areas, from the k-th entry of areasDict.
NewArea(name, roomCount, w, h, random) ==
    [name     |-> name,
     size     |-> Size(roomCount),
     pos      |-> Vector(Jitter(w, random[1]), Jitter(h, random[2])),
     velocity |-> Vector(0, 0),
     force    |-> Vector(0, 0)]

\* this.areas.findIndex(a => a.name === name), 0-based, -1 if none.
FindIndex(nodes, name) ==
    LET hits == {k \in 1 .. Len(nodes) : nodes[k].name = name}
    IN  IF hits = {} THEN -1 ELSE Min(hits) - 1

\* connections.map(conn => ({source: index, target: index, direction}))
MapConnection(nodes, conn) ==
    [source    |-> FindIndex(nodes, conn.source),
     target    |-> FindIndex(nodes, conn.target),
     direction |-> conn.direction]

\* A filter that tests the source only.
ResolvedSource(conn) == conn.source # -1

\* .filter(conn => conn.source !== -1 && conn.target !== -1)
Resolved(conn) == conn.source # -1 /\ conn.target # -1

RECURSIVE ResolveFrom(_, _, _)
ResolveFrom(nodes, conns, k) ==
    IF k > Len(conns) THEN <<>>
    ELSE LET conn == MapConnection(nodes, conns[k])
         IN  (IF Resolved(conn) THEN <<conn>> ELSE <<>>)
             \o ResolveFrom(nodes, conns, k + 1)

ResolveConnections(nodes, conns) == ResolveFrom(nodes, conns, 1)

\* --- applyForces ---------------------------------------------------------
\* Reset forces.
ResetForces(nodes) ==
    [k \in DOMAIN nodes |-> [nodes[k] EXCEPT !.force = Vector(0, 0)]]

\* distance and minDistance of a pair, as the repulsion loop computes them.
Distance(area1, area2) ==
    jsMax(Magnitude(Subtract(area2.pos, area1.pos)), Whole(1))

MinDistance(area1, area2) == jsAdd(jsAdd(area1.size, area2.size), Whole(20))

\* if (distance < minDistance)
Repels(area1, area2) == Distance(area1, area2) < MinDistance(area1, area2)

\* delta.normalize().multiply(repulsionForce / (distance * distance))
RepulsionOf(area1, area2) ==
    LET delta    == Subtract(area2.pos, area1.pos)
        distance == Distance(area1, area2)
    IN  Multiply(Normalize(delta),
                 jsDiv(repulsionForce, jsMul(distance, distance)))

\* A reaction of half the strength.
ReactionHalved(force) == Multiply(force, -Num(1, 2))

\* force.multiply(-1): what area1 receives for the force area2 receives.
Reaction(force) == Multiply(force, Whole(-1))

\* The body of the repulsion loop for the 0-based positions i < j.
RepelPair(nodes, i, j) ==
    IF Repels(nodes[i + 1], nodes[j + 1])
    THEN LET force == RepulsionOf(nodes[i + 1], nodes[j + 1])
         IN  [nodes EXCEPT
                ![j + 1].force = Validate(Add(@, force)),
                ![i + 1].force = Validate(Add(@, Reaction(force)))]
    ELSE nodes

\* The pairs (0-based i < j) the repulsion loops visit.
Pairs(nodes) ==
    {p \in (0 .. Len(nodes) - 1) \X (0 .. Len(nodes) - 1) : p[1] < p[2]}

\* The two vectors the repulsion loop adds for one pair: nothing is added
\* when the test distance < minDistance fails.
RepulsionForces(area1, area2) ==
    IF Repels(area1, area2)
    THEN LET force == RepulsionOf(area1, area2)
         IN  [toSecond |-> force, toFirst |-> Reaction(force)]
    ELSE [toSecond |-> Zero, toFirst |-> Zero]

\* for (i = 0 ..) for (j = i + 1 ..): the pairs from (i, j) on.
RECURSIVE RepelFrom(_, _, _)
RepelFrom(nodes, i, j) ==
    IF i >= Len(nodes) THEN nodes
    ELSE IF j >= Len(nodes) THEN RepelFrom(nodes, i + 1, i + 2)
    ELSE RepelFrom(RepelPair(nodes, i, j), i, j + 1)

\* The directional force of one edge, added to the target's force.
DirectionalForce(source, target, direction) ==
    LET idealDirection == getDirectionVector(direction)
        idealDistance  == springLength
        idealPosition  == Add(source.pos,
                              Multiply(idealDirection, idealDistance))
    IN  Multiply(Subtract(idealPosition, target.pos),
                 jsMul(springForce, directionBias))

\* The distance spring of one edge, added to the source's force.
SpringF(source, target) ==
    LET delta    == Subtract(target.pos, source.pos)
        distance == jsMax(Magnitude(delta), Whole(1))
    IN  Multiply(Normalize(delta),
                 jsMul(jsMul(jsSub(distance, springLength), springForce),
                       Num(1, 2)))

\* Edge forces with a full-strength reaction on the source.
EdgeForcesSymmetric(nodes, conn) ==
    LET source == nodes[conn.source + 1]
        target == nodes[conn.target + 1]
        directionalForce == DirectionalForce(source, target, conn.direction)
        springF == SpringF(source, target)
    IN  [toTarget     |-> directionalForce,
         toSource     |-> Multiply(directionalForce, Whole(-1)),
         springSource |-> springF,
         springTarget |-> Multiply(springF, Whole(-1))]

\* The four vectors one edge adds, from the positions of its endpoints.
EdgeForces(nodes, conn) ==
    LET source == nodes[conn.source + 1]
        target == nodes[conn.target + 1]
        directionalForce == DirectionalForce(source, target, conn.direction)
        springF == SpringF(source, target)
    IN  [toTarget     |-> directionalForce,
         toSource     |-> Multiply(directionalForce, -Num(1, 2)),
         springSource |-> springF,
         springTarget |-> Multiply(springF, Whole(-1))]

\* The body of this.connections.forEach for one edge.
ApplyConnection(nodes, conn) ==
    LET f  == EdgeForces(nodes, conn)
        n1 == [nodes EXCEPT ![conn.target + 1].force =
                  Validate(Add(@, f.toTarget))]
        n2 == [n1 EXCEPT ![conn.source + 1].force =
                  Validate(Add(@, f.toSource))]
        n3 == [n2 EXCEPT ![conn.source + 1].force =
                  Validate(Add(@, f.springSource))]
    IN  [n3 EXCEPT ![conn.target + 1].force =
            Validate(Add(@, f.springTarget))]

RECURSIVE ConnectFrom(_, _, _)
ConnectFrom(nodes, conns, k) ==
    IF k > Len(conns) THEN nodes
    ELSE ConnectFrom(ApplyConnection(nodes, conns[k]), conns, k + 1)

\* A clamp to the canvas that forgets the node's radius.
ClampToCanvas(size, dimension, coordinate) ==
    jsMax(0, jsMin(dimension, coordinate))

\* Keep within bounds: Math.max(size, Math.min(dimension - size, coordinate)),
\* assigned to the field of pos without the Vector constructor.
Clamp(size, dimension, coordinate) ==
    jsMax(size, jsMin(jsSub(dimension, size), coordinate))

\* Update velocities and positions, for one node.
Integrate(area, w, h) ==
    LET velocity == Validate(Multiply(Add(area.velocity, area.force), damping))
        pos      == Validate(Add(area.pos, velocity))
    IN  [area EXCEPT
            !.velocity = velocity,
            !.pos = [x |-> Clamp(area.size, w, pos.x),
                     y |-> Clamp(area.size, h, pos.y)]]

applyForces(nodes, conns, w, h) ==
    LET forced == ConnectFrom(RepelFrom(ResetForces(nodes), 0, 1), conns, 1)
    IN  [k \in DOMAIN forced |-> Integrate(forced[k], w, h)]

\* --- the engine as a state machine ----------------------------------------
\* Bounds: the explicit iteration counts are -1 .. MaxIterations, and a
\* simulate call on an engine that has already stepped is taken only while
\* the engine's total stays within MaxSteps.
MaxIterations == 3
MaxSteps == 4

\* The longest edge list handed to the constructor in the wiring runs.
MaxConnections == 2

\* The state after new ForceDirectedGraph(areasDict, connections, w, h),
\* areasDict holding Len(rooms) areas named AreaNames[1], AreaNames[2], ...
Constructed(rooms, conns, random, w, h) ==
    /\ args = [rooms |-> rooms, connections |-> conns, random |-> random]
    /\ width = w
    /\ height = h
    /\ areas = [k \in DOMAIN rooms |->
                   NewArea(AreaNames[k], rooms[k], w, h, random[k])]
    /\ connections = ResolveConnections(areas, conns)
    /\ pc = "idle"
    /\ iterations = 0
    /\ iter = 0
    /\ calls = 0
    /\ steps = 0
    /\ returned = "nothing"
    /\ repelled = {}
    /\ simArgs = <<>>
    /\ probe = [pos |-> <<>>, edges |-> <<>>, repulsion |-> <<>>]
    /\ areasDict = [owner |-> [r \in RoomIds |-> 1],
                    exits |-> [s \in Slots |-> Null]]
    /\ found = <<>>
    /\ drawn = <<>>
    /\ xpc = "off"

\* Layout runs: two areas; canvas dimensions, room counts and Math.random()
\* values vary, the edge list is empty or one edge of unknown direction.
Dims == {NaN, Whole(70), Whole(300)}
RoomCounts == {1, 1000}
RandomValues == {0, Num(3, 4)}
Draws == RandomValues \X RandomValues

LayoutConnections ==
    {<<>>, <<[source |-> "Town", target |-> "Forest",
              direction |-> "sideways"]>>}

Init ==
    \E rooms \in [1 .. 2 -> RoomCounts], random \in [1 .. 2 -> Draws],
       conns \in LayoutConnections, w \in Dims, h \in Dims :
        Constructed(rooms, conns, random, w, h)

\* Wiring runs: three areas on a 300 x 300 canvas; the edge list varies and
\* may name "Nowhere", which is no area.
WiringEdges ==
    {[source |-> "Town",    target |-> "Forest",  direction |-> "EAST"],
     [source |-> "Forest",  target |-> "Town",    direction |-> "Down"],
     [source |-> "Forest",  target |-> "Cave",    direction |-> "north"],
     [source |-> "Cave",    target |-> "Town",    direction |-> "sideways"],
     [source |-> "Town",    target |-> "Nowhere", direction |-> "south"],
     [source |-> "Nowhere", target |-> "Forest",  direction |-> "up"]}

WiringConnections ==
    UNION {[1 .. n -> WiringEdges] : n \in 0 .. MaxConnections}

WiringDraws ==
    {<<<<0, 0>>, <<Num(3, 4), 0>>, <<0, 0>>>>,
     <<<<0, Num(3, 4)>>, <<Num(3, 4), 0>>, <<Num(1, 2), Num(1, 2)>>>>}

InitWiring ==
    \E conns \in WiringConnections, random \in WiringDraws :
        Constructed(<<1, 200, 1000>>, conns, random, Whole(300), Whole(300))

\* The pairs (0-based i < j) that get a non-zero repulsion in a step.
RepelledPairs(nodes) ==
    {p \in (0 .. Len(nodes) - 1) \X (0 .. Len(nodes) - 1) :
        /\ p[1] < p[2]
        /\ Repels(nodes[p[1] + 1], nodes[p[2] + 1])
        /\ RepulsionOf(nodes[p[1] + 1], nodes[p[2] + 1]) # Zero}

\* The parameter iterations = 100 of a call with this argument list.
IterationsOf(arguments) ==
    IF arguments = <<>> THEN DefaultIterations ELSE arguments[1]

\* The loop test of simulate; the variant that runs once more.
LoopTestInclusive(n, count) == n <= count
LoopTest(n, count) == n < count

\* An entry of simulate that brings every node to rest first.
SimulateFresh(arguments) ==
    /\ pc = "idle"
    /\ LET n == IterationsOf(arguments)
       IN  /\ steps = 0 \/ steps + n <= MaxSteps
           /\ iterations' = n
    /\ areas' = [k \in DOMAIN areas |->
                    [areas[k] EXCEPT !.velocity = Vector(0, 0)]]
    /\ simArgs' = arguments
    /\ iter' = 0
    /\ calls' = 0
    /\ returned' = "nothing"
    /\ pc' = "loop"
    /\ UNCHANGED <<args, width, height, connections, steps, repelled,
                   probe, xvars>>

\* simulate(iterations = 100): entry.
Simulate(arguments) ==
    /\ pc = "idle"
    /\ LET n == IterationsOf(arguments)
       IN  /\ steps = 0 \/ steps + n <= MaxSteps
           /\ iterations' = n
    /\ simArgs' = arguments
    /\ iter' = 0
    /\ calls' = 0
    /\ returned' = "nothing"
    /\ pc' = "loop"
    /\ UNCHANGED <<args, width, height, areas, connections, steps, repelled,
                   probe, xvars>>

\* One iteration of the loop: i < iterations, this.applyForces(), i++.
Step ==
    /\ pc = "loop"
    /\ LoopTest(iter, iterations)
    /\ areas' = applyForces(areas, connections, width, height)
    /\ repelled' = repelled \cup RepelledPairs(areas)
    /\ probe' = [pos   |-> [k \in DOMAIN areas |-> areas[k].pos],
                 edges |-> [k \in DOMAIN connections |->
                               EdgeForces(areas, connections[k])],
                 repulsion |-> [p \in Pairs(areas) |->
                                  RepulsionForces(areas[p[1] + 1],
                                                  areas[p[2] + 1])]]
    /\ iter' = iter + 1
    /\ calls' = calls + 1
    /\ steps' = steps + 1
    /\ UNCHANGED <<args, width, height, connections, pc, iterations, returned,
                   simArgs, xvars>>

\* The loop test fails: return this.areas.
Return ==
    /\ pc = "loop"
    /\ ~LoopTest(iter, iterations)
    /\ returned' = "this.areas"
    /\ pc' = "idle"
    /\ UNCHANGED <<args, width, height, areas, connections, iterations, iter,
                   calls, steps, repelled, simArgs, probe, xvars>>

Next ==
    \/ \E n \in -1 .. MaxIterations : Simulate(<<n>>)
    \/ Simulate(<<>>)
    \/ Step
    \/ Return

Spec == Init /\ [][Next]_vars

SpecWiring == InitWiring /\ [][Next]_vars

\* simulate is one synchronous call: once entered, its loop keeps running.
\* StepFairness is WF_vars(Step) with ENABLED <<Step>>_vars and <<Step>>_vars
\* written out: Step is enabled exactly when the loop test holds, and it is
\* the only action that increments iter.
StepFairness ==
    \/ []<>~(pc = "loop" /\ LoopTest(iter, iterations))
    \/ []<><<pc = "loop" /\ iter' = iter + 1>>_vars

FairWiring == SpecWiring /\ StepFairness /\ WF_vars(Return)

\* ------------------------------------------------------------------------
\* Properties of the extractor
\* ------------------------------------------------------------------------
Range(seq) == {seq[k] : k \in 1 .. Len(seq)}
Ends(conn) == {conn.source, conn.target}
AreIn(seq, conn) == \E k \in 1 .. Len(seq) : seq[k] = conn
AreReverse(c, d) == c.source = d.target /\ c.target = d.source

\* An exit that crosses from the area of its room into another area.
Crosses(g, s) ==
    /\ g.exits[s] \in RoomIds
    /\ g.owner[g.exits[s]] # g.owner[s[1]]

East == CHOOSE d \in DOMAIN Dirs : Dirs[d] = "east"
West == CHOOSE d \in DOMAIN Dirs : Dirs[d] = "west"

\* C1: the returned list holds at most one connection per unordered pair of
\* areas: no two entries have the same endpoint set {source, target}.
C1_OnePerPair ==
    xpc = "done" =>
        \A i, j \in 1 .. Len(found) : i < j => Ends(found[i]) # Ends(found[j])

\* C2: of two candidates that are mutual reverses, the one earlier in scan
\* order is in the returned list with its own direction, the later one is
\* not in it.
C2_FirstOfReversePairKept ==
    xpc = "done" =>
        LET c == Candidates(areasDict)
        IN  \A i, j \in 1 .. Len(c) :
                (i < j /\ AreReverse(c[i], c[j])) =>
                    AreIn(found, c[i]) /\ ~AreIn(found, c[j])

C2_Witness ==
    /\ xpc = "done"
    /\ LET c == Candidates(areasDict)
       IN  \E i, j \in 1 .. Len(c) : i < j /\ AreReverse(c[i], c[j])

\* The only exits that cross areas are ra -east-> rb and rb -west-> ra.
SymmetricPairOnly(g, ra, rb) ==
    /\ g.owner[ra] # g.owner[rb]
    /\ g.exits[<<ra, East>>] = rb
    /\ g.exits[<<rb, West>>] = ra
    /\ \A s \in Slots \ {<<ra, East>>, <<rb, West>>} : ~Crosses(g, s)

\* C3: when the only cross-area exits are a symmetric east/west pair between
\* two rooms, exactly one connection between the two areas is returned.
C3_SymmetricPairOnce ==
    xpc = "done" =>
        \A ra, rb \in RoomIds :
            SymmetricPairOnly(areasDict, ra, rb) =>
                /\ Len(found) = 1
                /\ Ends(found[1]) = {AreaNames[areasDict.owner[ra]],
                                     AreaNames[areasDict.owner[rb]]}

C3_Witness ==
    /\ xpc = "done"
    /\ \E ra, rb \in RoomIds : SymmetricPairOnly(areasDict, ra, rb)

\* The graph without its intra-area and its dangling exits.
Strip(g) ==
    [g EXCEPT !.exits = [s \in Slots |->
        IF Crosses(g, s) THEN g.exits[s] ELSE Null]]

\* C4: every returned connection joins two different areas of the input;
\* intra-area exits and dangling exits yield no connection and leave the
\* returned list as it is without them.
C4_NoSelfNoDangling ==
    xpc = "done" =>
        /\ \A k \in 1 .. Len(found) :
              /\ found[k].source # found[k].target
              /\ found[k].source \in Range(AreaNames)
              /\ found[k].target \in Range(AreaNames)
        /\ found = Dedup(Candidates(Strip(areasDict)))

\* A connection is returned from a graph that also has a dangling or an
\* intra-area exit.
C4_Witness ==
    /\ xpc = "done"
    /\ found # <<>>
    /\ \E s \in Slots :
          \/ areasDict.exits[s] = Dangling
          \/ /\ areasDict.exits[s] \in RoomIds
             /\ areasDict.owner[areasDict.exits[s]] = areasDict.owner[s[1]]

\* ------------------------------------------------------------------------
\* Properties of the layout engine
\* ------------------------------------------------------------------------
\* a <= b as JavaScript compares numbers: false when either is NaN.
jsLe(a, b) == a # NaN /\ b # NaN /\ a <= b

Within(size, dimension, coordinate) ==
    jsLe(size, coordinate) /\ jsLe(coordinate, jsSub(dimension, size))

Nodes == DOMAIN areas

\* C5: after construction and after every applyForces call, every node
\* has size <= pos.x <= width - size and size <= pos.y <= height - size,
\* whatever the canvas dimensions.
C5_Contained ==
    pc # "off" =>
        \A k \in Nodes :
            /\ Within(areas[k].size, width, areas[k].pos.x)
            /\ Within(areas[k].size, height, areas[k].pos.y)

\* The canvas leaves room for the node along one axis: after a step when
\* dimension >= 2 * size, after construction when dimension >= 8/3 * size.
Roomy(size, dimension) ==
    /\ IsFinite(dimension)
    /\ IF steps = 0 THEN 3 * dimension >= 8 * size ELSE dimension >= 2 * size

\* C5 (amended): the containment holds along an axis whose dimension leaves
\* room for the node: at least 2 * size after an applyForces call, at least
\* 8/3 * size right after construction.
C5_ContainedWhenRoomy ==
    pc # "off" =>
        \A k \in Nodes :
            /\ Roomy(areas[k].size, width) =>
                  Within(areas[k].size, width, areas[k].pos.x)
            /\ Roomy(areas[k].size, height) =>
                  Within(areas[k].size, height, areas[k].pos.y)

\* A step has pushed a node onto the edge of its allowed range.
C5_Witness ==
    /\ steps >= 1
    /\ \E k \in Nodes :
          /\ Roomy(areas[k].size, width)
          /\ width > 2 * areas[k].size
          /\ areas[k].pos.x \in {areas[k].size, width - areas[k].size}

\* The number of applyForces calls a simulate call with this argument list
\* is to make.
Expected(arguments) ==
    IF arguments = <<>> THEN 100
    ELSE IF arguments[1] <= 0 THEN 0 ELSE arguments[1]

\* C6: a simulate call makes its applyForces calls one after another and
\* terminates: every step of the loop either makes one more call, of at
\* most `iterations` (100 without argument, none when iterations <= 0), or
\* returns this.areas, and it returns only after exactly that many calls.
C6_SimulateRunsIterations ==
    /\ [](pc = "loop" =>
             calls = iter /\ calls <= Expected(simArgs) /\ returned = "nothing")
    /\ [](returned = "this.areas" =>
             pc = "idle" /\ calls = Expected(simArgs))
    /\ [][pc = "loop" =>
             \/ /\ pc' = "loop"
                /\ calls < Expected(simArgs)
                /\ calls' = calls + 1
                /\ steps' = steps + 1
             \/ /\ pc' = "idle"
                /\ returned' = "this.areas"
                /\ areas' = areas]_vars
    /\ (pc = "loop" ~> (pc = "idle" /\ returned = "this.areas"))

C6_Witness ==
    /\ pc = "idle"
    /\ returned = "this.areas"
    /\ simArgs = <<>>
    /\ calls = 100

Unknown(direction) == ToLowerCase(direction) \notin Compass

Edges == DOMAIN connections

Probed == steps >= 1

\* C7: an edge of unknown direction adds no directional force to its target
\* and none to its source.
C7_NoDirectionalForce ==
    Probed =>
        \A k \in Edges :
            Unknown(connections[k].direction) =>
                /\ probe.edges[k].toTarget = Zero
                /\ probe.edges[k].toSource = Zero

\* C7 (amended): for an edge of unknown direction getDirectionVector returns
\* (0, 0); the directional force added to the target is
\* (sourcePos - targetPos) * 0.02 and -0.5 times that is added to the source.
C7_PullsTowardSource ==
    Probed =>
        \A k \in Edges :
            Unknown(connections[k].direction) =>
                LET sourcePos == probe.pos[connections[k].source + 1]
                    targetPos == probe.pos[connections[k].target + 1]
                    pull == Multiply(Subtract(sourcePos, targetPos),
                                     Num(2, 100))
                IN  /\ getDirectionVector(connections[k].direction) = Zero
                    /\ probe.edges[k].toTarget = pull
                    /\ probe.edges[k].toSource = Multiply(pull, -Num(1, 2))

C7_Witness ==
    /\ Probed
    /\ \E k \in Edges :
          /\ Unknown(connections[k].direction)
          /\ probe.edges[k].toTarget # Zero
          /\ probe.edges[k].toSource # Zero

Names == {areas[k].name : k \in Nodes}

Resolvable(conn) == conn.source \in Names /\ conn.target \in Names

\* C8: every edge of the engine refers to nodes by valid indexes; the edges
\* are the input edges whose two names are names of nodes, in their order
\* and with their direction.
C8_EdgesResolved ==
    pc # "off" =>
        LET kept == SelectSeq(args.connections, Resolvable)
        IN  /\ \A k \in Edges :
                  /\ connections[k].source \in 0 .. Len(areas) - 1
                  /\ connections[k].target \in 0 .. Len(areas) - 1
            /\ Len(connections) = Len(kept)
            /\ \A k \in Edges :
                  /\ areas[connections[k].source + 1].name = kept[k].source
                  /\ areas[connections[k].target + 1].name = kept[k].target
                  /\ connections[k].direction = kept[k].direction

\* An unresolvable edge in front of a resolvable one was dropped, and the
\* engine has stepped.
C8_Witness ==
    /\ steps >= 1
    /\ Len(args.connections) = 2
    /\ ~Resolvable(args.connections[1])
    /\ Resolvable(args.connections[2])
    /\ Len(connections) = 1

\* The nodes as the constructor placed them.
InitialAreas ==
    [k \in DOMAIN args.rooms |->
        NewArea(AreaNames[k], args.rooms[k], width, height, args.random[k])]

InitiallyClose(a, b) ==
    Magnitude(Subtract(InitialAreas[b].pos, InitialAreas[a].pos))
        < jsAdd(jsAdd(InitialAreas[a].size, InitialAreas[b].size), Whole(20))

\* C9: once simulate has made a step, every pair of nodes whose initial
\* distance was below size1 + size2 + 20 has received a non-zero repulsion.
C9_CloseNodesRepelled ==
    steps >= 1 =>
        \A a, b \in Nodes :
            (a < b /\ InitiallyClose(a, b)) => <<a - 1, b - 1>> \in repelled

FiniteVector(v) == IsFinite(v.x) /\ IsFinite(v.y)

\* C10: in every state of the engine both components of every node's pos,
\* velocity and force are finite numbers.
C10_AllFinite ==
    pc # "off" =>
        \A k \in Nodes :
            /\ FiniteVector(areas[k].pos)
            /\ FiniteVector(areas[k].velocity)
            /\ FiniteVector(areas[k].force)

\* The test max(|posB - posA|, 1) >= sizeA + sizeB + 20 for the nodes a and b
\* (1-based), on the positions the last step started from.
FarApart(a, b) ==
    jsMax(Magnitude(Subtract(probe.pos[b], probe.pos[a])), Whole(1))
        >= jsAdd(jsAdd(areas[a].size, areas[b].size), Whole(20))

Negation(v) == [x |-> jsNeg(v.x), y |-> jsNeg(v.y)]

\* Node k (1-based) is an endpoint of some edge of the engine.
Incident(k) ==
    \E e \in Edges :
        connections[e].source = k - 1 \/ connections[e].target = k - 1

\* What the pair of k and j contributed to the force of k in the last step.
PairShare(k, j) ==
    IF j = k THEN Zero
    ELSE IF k < j THEN probe.repulsion[<<k - 1, j - 1>>].toFirst
    ELSE probe.repulsion[<<j - 1, k - 1>>].toSecond

\* The repulsion contributions to node k of its pairs with j, j + 1, ...
RECURSIVE RepulsionOn(_, _)
RepulsionOn(k, j) ==
    IF j > Len(areas) THEN Zero
    ELSE Add(PairShare(k, j), RepulsionOn(k, j + 1))

\* C11: in every applyForces step and for every pair of nodes, the repulsion
\* added to the first node is the exact negation of the one added to the
\* second, and both are zero when max(|posB - posA|, 1) >= sizeA + sizeB + 20;
\* a node without incident edge that is that far from every other node ends
\* the step with force (0, 0), and without edges every node's force is the
\* sum of its pairs' contributions.
C11_RepulsionPairs ==
    Probed =>
        /\ \A p \in Pairs(areas) :
              LET r == probe.repulsion[p]
              IN  /\ r.toFirst = Negation(r.toSecond)
                  /\ FarApart(p[1] + 1, p[2] + 1) =>
                        r.toSecond = Zero /\ r.toFirst = Zero
        /\ \A k \in Nodes :
              (~Incident(k) /\ \A j \in Nodes \ {k} : FarApart(k, j)) =>
                  areas[k].force = Zero
        /\ Edges = {} =>
              \A k \in Nodes : areas[k].force = RepulsionOn(k, 1)

\* In one step a pair has been repelled while another node, without edge,
\* was far from every other node.
C11_Witness ==
    /\ Probed
    /\ \E p \in Pairs(areas) : probe.repulsion[p].toSecond # Zero
    /\ \E k \in Nodes :
          ~Incident(k) /\ \A j \in Nodes \ {k} : FarApart(k, j)

\* D of an edge, from the positions the last step started from:
\* (sourcePos + bias * 200 - targetPos) * (0.01 * 2.0).
DirectionalD(conn) ==
    LET sourcePos == probe.pos[conn.source + 1]
        targetPos == probe.pos[conn.target + 1]
        bias      == getDirectionVector(conn.direction)
    IN  Multiply(Subtract(Add(sourcePos, Multiply(bias, Whole(200))),
                          targetPos),
                 jsMul(Num(1, 100), Whole(2)))

\* S of an edge, from the same positions:
\* normalize(targetPos - sourcePos)
\*     * (max(|targetPos - sourcePos|, 1) - 200) * 0.01 * 0.5.
SpringS(conn) ==
    LET delta == Subtract(probe.pos[conn.target + 1],
                          probe.pos[conn.source + 1])
    IN  Multiply(Normalize(delta),
                 jsMul(jsMul(jsSub(jsMax(Magnitude(delta), Whole(1)),
                                   Whole(200)),
                             Num(1, 100)),
                       Num(1, 2)))

\* What one edge adds to the force of node k (1-based): D - S to its target,
\* -0.5 * D + S to its source, both to a node that is its source and target.
EdgeShare(k, conn) ==
    LET onTarget == IF conn.target = k - 1
                    THEN Add(DirectionalD(conn), Negation(SpringS(conn)))
                    ELSE Zero
        onSource == IF conn.source = k - 1
                    THEN Add(Multiply(DirectionalD(conn), -Num(1, 2)),
                             SpringS(conn))
                    ELSE Zero
    IN  Add(onTarget, onSource)

\* The contributions to node k of the edges e, e + 1, ..., each taken once.
RECURSIVE EdgesOn(_, _)
EdgesOn(k, e) ==
    IF e > Len(connections) THEN Zero
    ELSE Add(EdgeShare(k, connections[e]), EdgesOn(k, e + 1))

\* C12: in every applyForces step every edge adds D to its target's force
\* and -0.5 * D to its source's force, and S to its source and -S to its
\* target, D and S computed from the positions at the end of the previous
\* step; every edge is processed exactly once, so that every node ends the
\* step with the sum of its repulsions and of these contributions as force.
C12_EdgeForces ==
    Probed =>
        /\ \A e \in Edges :
              LET f == probe.edges[e]
                  D == DirectionalD(connections[e])
                  S == SpringS(connections[e])
              IN  /\ f.toTarget = D
                  /\ f.toSource = Multiply(D, -Num(1, 2))
                  /\ f.springSource = S
                  /\ f.springTarget = Negation(S)
        /\ \A k \in Nodes :
              areas[k].force = Add(RepulsionOn(k, 1), EdgesOn(k, 1))

\* A step with two edges, one of them with a known direction, whose D and S
\* are both non-zero, on nodes that had already moved.
C12_Witness ==
    /\ steps >= 2
    /\ Len(connections) = 2
    /\ \E e \in Edges :
          /\ ~Unknown(connections[e].direction)
          /\ probe.edges[e].toTarget # Zero
          /\ probe.edges[e].springSource # Zero

\* C13: the list returned by findDirectionalConnections never holds both a
\* connection A->B and a connection B->A, and generateHTML draws exactly one
\* path, never the reverse path, for every connection it renders.
C13_NoReversePairInOutput ==
    /\ xpc \in {"done", "rendered"} =>
          \A c, d \in Range(found) : ~AreReverse(c, d)
    /\ xpc = "rendered" =>
          /\ DOMAIN drawn = DOMAIN found
          /\ \A k \in DOMAIN drawn : drawn[k] = 1

\* generateHTML has rendered a connection of a graph with exits in both
\* directions between two areas.
C13_Witness ==
    /\ xpc = "rendered"
    /\ \E c, d \in Range(Candidates(areasDict)) : AreReverse(c, d)
    /\ found # <<>>

\* The nodes after n applyForces calls on the given nodes.
RECURSIVE StepsFrom(_, _)
StepsFrom(nodes, n) ==
    IF n = 0 THEN nodes
    ELSE StepsFrom(applyForces(nodes, connections, width, height), n - 1)

\* C14: however the applyForces calls made so far were split into simulate
\* calls, the nodes are those of one simulate call of that many iterations
\* on the nodes the constructor placed (compared for totals up to MaxSteps);
\* the node count, every node's name and size and the edge list never
\* change.
C14_SimulateResumes ==
    pc # "off" =>
        /\ Len(areas) = Len(InitialAreas)
        /\ \A k \in Nodes :
              /\ areas[k].name = InitialAreas[k].name
              /\ areas[k].size = InitialAreas[k].size
        /\ connections = ResolveConnections(InitialAreas, args.connections)
        /\ steps <= MaxSteps => areas = StepsFrom(InitialAreas, steps)

\* A second or later simulate call has returned on nodes that are moving.
C14_Witness ==
    /\ pc = "idle"
    /\ returned = "this.areas"
    /\ calls >= 1
    /\ steps > calls
    /\ steps <= MaxSteps
    /\ \E k \in Nodes : areas[k].velocity # Zero
====
